---- MODULE Spec2Model ----
(***************************************************************************)
(* CareWell (server.js): phone/OTP authentication, the presence registry   *)
(* and event relay, and the request handlers that write to the database    *)
(* and push events.                                                        *)
(*                                                                         *)
(* Granularity.  Node runs one callback at a time, so every synchronous    *)
(* stretch of a handler is one step.  A database statement and the         *)
(* callback that receives its result form one step, taken at the moment    *)
(* the statement executes; steps of different requests interleave freely   *)
(* (the database object is only serialized during table creation, lines    *)
(* 27-95).  A statement issued without a callback (ensureSettings, the OTP *)
(* DELETE) is kept in `pending` and executes in a step of its own.  Every  *)
(* statement may fail (ok = FALSE), as every callback of the source        *)
(* receives an err argument.                                               *)
(*                                                                         *)
(* Left out: first_name/last_name/content values (only their presence is   *)
(* read by the handlers modelled), created_at columns, static files.       *)
(***************************************************************************)
EXTENDS Integers, Sequences, FiniteSets, TLC

\* ------------------------------------------------------------------ bounds
NPhones == 1
NSessions == 2
MaxReqs == 3
MaxInFlight == 2
MaxTicks == 2
TickMs == 300000
NUsers == 3
MaxSockets == 2
MaxAppReqs == 2
MaxRelayReqs == 1

\* ------------------------------------------------------------- vocabulary
Phones == 1..NPhones
NoPhone == 0
Sids == 1..NSessions
ReqIds == 1..MaxReqs
Roles == {"elderly", "family"}
NoRow == [none |-> TRUE]
NoUser == [id |-> 0, phone |-> 0, role |-> "none"]

\* lines 203-204
OtpTtlMs == 1000 * 60 * 5
CodeLow == 100000
CodeSpan == 900000

\* Math.floor(100000 + Math.random() * 900000): every integer of the range
\* can be drawn; the model draws from its two ends.
DrawnCodes == {CodeLow, CodeLow + CodeSpan - 1}

\* '' + n : a JS string of digits; a JSON number is another type, and
\* row.code !== code compares type and value.
JsString(n) == [type |-> "string", digits |-> n]
JsNumber(n) == [type |-> "number", digits |-> n]
NoCode == [type |-> "undefined", digits |-> 0]
PresentedCodes == {JsString(c) : c \in DrawnCodes} \cup {JsNumber(CodeLow), NoCode}

VARIABLES
  users,        \* table users: set of [id, phone, role]
  userSeq,      \* AUTOINCREMENT of users
  otps,         \* table otps: phone -> NoRow or [code, expires_at, issue]
  settings,     \* table settings: user id -> NoRow or the three toggles
  sessions,     \* session store: sid -> session user or NoUser
  now,          \* Date.now() as last read
  reqs,         \* HTTP requests: id -> record (handler position and locals)
  nreq,         \* requests started so far
  pending,      \* statements issued without a callback, not yet executed
  contacts,     \* table contacts: set of [user_id, contact_user_id, by]
  messages,     \* table messages: rows in id order
  exercises,    \* table exercises: rows in id order
  support,      \* table support_messages: rows in id order
  sockets,      \* socket.io connections in the order they opened; socket.id = index
  onlineUsers,  \* the Map onlineUsers, as its set of entries
  inbox,        \* socket -> events emitted to it
  pushes        \* the calls of emitToUser, in order

authVars == <<users, userSeq, otps, sessions, now>>
tableVars == <<contacts, messages, exercises, support>>
relayVars == <<sockets, onlineUsers, inbox, pushes>>
appVars == <<contacts, messages, exercises, support, sockets, onlineUsers, inbox, pushes>>
vars == <<users, userSeq, otps, settings, sessions, now, reqs, nreq, pending,
          contacts, messages, exercises, support, sockets, onlineUsers, inbox, pushes>>

Blank ==
  [kind |-> "none", pc |-> "idle", sid |-> 0, user |-> NoUser, phone |-> NoPhone,
   code |-> NoCode, role |-> "none", now |-> 0, expires |-> 0, uid |-> 0,
   seen |-> 0, to |-> 0, recips |-> <<>>, k |-> 0, nfail |-> 0,
   flag |-> "unread", sok |-> FALSE, fam |-> {}, cok |-> FALSE,
   status |-> 0, body |-> "none"]

\* res.status(s).json({error: e}) / res.json({ok: true}) as the handler's last
\* act: its locals go out of scope.  What is kept of the request is what a log
\* of it would hold: the route, the session user, the phone or recipient, the
\* answer, and what its statements read (the OTP row, the recipients, the
\* settings flag, the family contacts) and how many of its inserts failed.
Finish(rec, s, b) ==
  [Blank EXCEPT !.kind = rec.kind, !.user = rec.user, !.phone = rec.phone,
                !.seen = rec.seen, !.to = rec.to, !.recips = rec.recips,
                !.nfail = rec.nfail,
                !.flag = rec.flag, !.sok = rec.sok, !.fam = rec.fam, !.cok = rec.cok,
                !.status = s, !.body = b, !.pc = "done"]
Respond(r, s, b) == Finish(reqs[r], s, b)

UserByPhone(p) == {u \in users : u.phone = p}
UserById(i) == {u \in users : u.id = i}

\* req.body.role as sent: a role name, or anything else (here: absent)
RoleInputs == {"family", "none"}

\* lines 125-133
rowToFamilyUser(row) == [id |-> row.id, phone |-> row.phone, role |-> "family"]
rowToUser(row) == [id |-> row.id, phone |-> row.phone, role |-> row.role]

\* line 140
RoleValue(role) ==
  IF role = "elderly" THEN "elderly" ELSE IF role = "family" THEN "family" ELSE "elderly"

DefaultSettings == [elderly_notify_exercise |-> 1, elderly_notify_checkup |-> 1,
                    family_notify_parent_done |-> 1, by |-> 0, given |-> {}]

\* Date.now() is read in two places (lines 171 and 204).  Time that passes
\* between two reads is seen only by the later one, so the clock moves where it
\* is read: a read returns any instant not before the previous one.
Instants == {k * TickMs : k \in 0..MaxTicks}
DateNow(t) == t \in Instants /\ t >= now /\ now' = t

\* A fresh request slot: requests are numbered in the order they arrive.
InFlight == {q \in ReqIds : reqs[q].pc \notin {"idle", "done"}}
NewReq(r) == r = nreq + 1 /\ r \in ReqIds /\ Cardinality(InFlight) < MaxInFlight

\* ======================================================== request-otp
\* lines 136-142: validation, then SELECT users is issued.
RequestOtp(r, named, phone, role) ==
  /\ NewReq(r)
  /\ nreq' = r
  /\ reqs' = [reqs EXCEPT ![r] =
       IF ~named \/ phone = NoPhone
       THEN [Blank EXCEPT !.kind = "request-otp", !.status = 400,
                          !.body = "missing_fields", !.pc = "done"]
       ELSE [Blank EXCEPT !.kind = "request-otp", !.phone = phone,
                          !.role = RoleValue(role), !.pc = "ro_select"]]
  /\ UNCHANGED <<users, userSeq, otps, settings, sessions, now, pending>>
  /\ UNCHANGED appVars

\* lines 202-204: the code and the expiry are fixed when generateAndStoreOtp
\* is called; the INSERT OR REPLACE executes later.
OtpIssued(r, uid, code, t) ==
  [reqs[r] EXCEPT !.uid = uid, !.code = JsString(code), !.now = t,
                  !.expires = t + OtpTtlMs, !.pc = "ro_store"]

\* lines 142-147, 156-157: SELECT users WHERE phone, then INSERT or UPDATE is issued.
RoSelectUser(r, ok) ==
  /\ reqs[r].pc = "ro_select"
  /\ reqs' = [reqs EXCEPT ![r] =
       IF ~ok THEN Respond(r, 500, "db_error")
       ELSE IF UserByPhone(reqs[r].phone) = {}
            THEN [reqs[r] EXCEPT !.pc = "ro_insert"]
            ELSE [reqs[r] EXCEPT !.pc = "ro_update",
                                 !.uid = (CHOOSE u \in UserByPhone(reqs[r].phone) : TRUE).id]]
  /\ UNCHANGED <<users, userSeq, otps, settings, sessions, now, nreq, pending>>
  /\ UNCHANGED appVars

\* lines 146-153: INSERT INTO users; phone is UNIQUE.  On success
\* ensureSettings(this.lastID) and generateAndStoreOtp are called.
RoInsertUser(r, ok, code, t) ==
  /\ reqs[r].pc = "ro_insert"
  /\ IF ok /\ UserByPhone(reqs[r].phone) = {}
     THEN /\ DateNow(t)
          /\ userSeq' = userSeq + 1
          /\ users' = users \cup {[id |-> userSeq + 1, phone |-> reqs[r].phone,
                                   role |-> reqs[r].role]}
          /\ pending' = pending \cup {[op |-> "ensureSettings", arg |-> userSeq + 1, req |-> r]}
          /\ reqs' = [reqs EXCEPT ![r] = OtpIssued(r, userSeq + 1, code, t)]
     ELSE /\ t = now
          /\ reqs' = [reqs EXCEPT ![r] = Respond(r, 500, "db_insert_error")]
          /\ UNCHANGED <<users, userSeq, pending, now>>
  /\ UNCHANGED <<otps, settings, sessions, nreq>>
  /\ UNCHANGED appVars

\* lines 156-163: UPDATE users SET ... role WHERE id; then as above.
RoUpdateUser(r, ok, code, t) ==
  /\ reqs[r].pc = "ro_update"
  /\ IF ok
     THEN /\ DateNow(t)
          /\ users' = {IF u.id = reqs[r].uid THEN [u EXCEPT !.role = reqs[r].role] ELSE u
                       : u \in users}
          /\ pending' = pending \cup {[op |-> "ensureSettings", arg |-> reqs[r].uid, req |-> r]}
          /\ reqs' = [reqs EXCEPT ![r] = OtpIssued(r, reqs[r].uid, code, t)]
     ELSE /\ t = now
          /\ reqs' = [reqs EXCEPT ![r] = Respond(r, 500, "db_update_error")]
          /\ UNCHANGED <<users, pending, now>>
  /\ UNCHANGED <<userSeq, otps, settings, sessions, nreq>>
  /\ UNCHANGED appVars

\* lines 205-208 with 149-152 / 159-162: INSERT OR REPLACE INTO otps; an error
\* is logged and cb(code) runs either way, answering ok.
StoreOtpRow(r, ok) ==
  IF ok
  THEN [otps EXCEPT ![reqs[r].phone] =
          [code |-> reqs[r].code, expires_at |-> reqs[r].expires, issue |-> r]]
  ELSE otps

\* The requests that request-otp has answered ok so far.
IssuesAnswered == {q \in ReqIds : reqs[q].kind = "request-otp" /\ reqs[q].status = 200}

\* The answer carries the code (devCode, line 151); the record of the request
\* keeps it, and in seen its place in the order in which issues were answered.
RoStoreOtp(r, ok) ==
  /\ reqs[r].pc = "ro_store"
  /\ otps' = StoreOtpRow(r, ok)
  /\ reqs' = [reqs EXCEPT ![r] =
       [Respond(r, 200, "ok") EXCEPT !.code = reqs[r].code,
                                     !.seen = Cardinality(IssuesAnswered) + 1]]
  /\ UNCHANGED <<users, userSeq, settings, sessions, now, nreq, pending>>
  /\ UNCHANGED appVars

\* lines 198-200: INSERT OR IGNORE INTO settings (user_id), executed some time
\* after it was issued; nobody reads its outcome.
RunEnsureSettings(st, ok) ==
  /\ st \in pending
  /\ st.op = "ensureSettings"
  /\ pending' = pending \ {st}
  /\ settings' = IF ok /\ UserById(st.arg) # {} /\ settings[st.arg] = NoRow
                 THEN [settings EXCEPT ![st.arg] = [DefaultSettings EXCEPT !.by = st.req]]
                 ELSE settings
  /\ UNCHANGED <<users, userSeq, otps, sessions, now, reqs, nreq>>
  /\ UNCHANGED appVars

\* ========================================================= verify-otp
\* lines 168-172: validation, now = Date.now(), then SELECT otps is issued.
VerifyOtp(r, sid, phone, code, t) ==
  /\ NewReq(r)
  /\ nreq' = r
  /\ IF phone = NoPhone \/ code = NoCode THEN t = now /\ now' = now ELSE DateNow(t)
  /\ reqs' = [reqs EXCEPT ![r] =
       IF phone = NoPhone \/ code = NoCode
       THEN [Blank EXCEPT !.kind = "verify-otp", !.sid = sid, !.status = 400,
                          !.body = "missing_fields", !.pc = "done"]
       ELSE [Blank EXCEPT !.kind = "verify-otp", !.sid = sid, !.phone = phone,
                          !.code = code, !.now = t, !.pc = "vo_otp"]]
  /\ UNCHANGED <<users, userSeq, otps, settings, sessions, pending>>
  /\ UNCHANGED appVars

\* line 176
OtpAlwaysExpired(row, t) == TRUE
OtpExpired(row, t) == row.expires_at < t

\* lines 172-178: SELECT otps WHERE phone and the three checks.
VoSelectOtp(r, ok) ==
  /\ reqs[r].pc = "vo_otp"
  /\ LET row == otps[reqs[r].phone] IN
     reqs' = [reqs EXCEPT ![r] =
       IF ~ok THEN Respond(r, 500, "db_error")
       ELSE IF row = NoRow THEN Respond(r, 400, "otp_not_found")
       ELSE IF row.code # reqs[r].code THEN Respond(r, 400, "otp_invalid")
       ELSE IF OtpExpired(row, reqs[r].now)
            THEN [Respond(r, 400, "otp_expired") EXCEPT !.seen = row.issue]
            ELSE [reqs[r] EXCEPT !.pc = "vo_user", !.expires = row.expires_at,
                                 !.seen = row.issue]]
  /\ UNCHANGED <<users, userSeq, otps, settings, sessions, now, nreq, pending>>
  /\ UNCHANGED appVars

\* lines 178-184: SELECT users WHERE phone; req.session.user is set, the DELETE
\* is issued without a callback, and the response (which saves the session) is sent.
VoSelectUser(r, ok) ==
  /\ reqs[r].pc = "vo_user"
  /\ IF ~ok \/ UserByPhone(reqs[r].phone) = {}
     THEN /\ reqs' = [reqs EXCEPT ![r] = Respond(r, 500, "user_not_found")]
          /\ UNCHANGED <<sessions, pending>>
     ELSE LET uRow == CHOOSE u \in UserByPhone(reqs[r].phone) : TRUE IN
          /\ sessions' = [sessions EXCEPT ![reqs[r].sid] = rowToUser(uRow)]
          /\ pending' = pending \cup {[op |-> "deleteOtp", arg |-> reqs[r].phone, req |-> r]}
          /\ reqs' = [reqs EXCEPT ![r] = Respond(r, 200, "ok")]
  /\ UNCHANGED <<users, userSeq, otps, settings, now, nreq>>
  /\ UNCHANGED appVars

\* line 182: DELETE FROM otps WHERE phone, executed some time after it was issued.
RunDeleteOtp(st, ok) ==
  /\ st \in pending
  /\ st.op = "deleteOtp"
  /\ pending' = pending \ {st}
  /\ otps' = IF ok THEN [otps EXCEPT ![st.arg] = NoRow] ELSE otps
  /\ UNCHANGED <<users, userSeq, settings, sessions, now, reqs, nreq>>
  /\ UNCHANGED appVars

\* ============================================================ auth spec
InitAuth ==
  /\ users = {}
  /\ userSeq = 0
  /\ otps = [p \in Phones |-> NoRow]
  /\ settings = [u \in 1..NPhones |-> NoRow]
  /\ sessions = [s \in Sids |-> NoUser]
  /\ now = 0
  /\ reqs = [r \in ReqIds |-> Blank]
  /\ nreq = 0
  /\ pending = {}
  /\ contacts = {}
  /\ messages = <<>>
  /\ exercises = <<>>
  /\ support = <<>>
  /\ sockets = <<>>
  /\ onlineUsers = {}
  /\ inbox = [s \in 1..MaxSockets |-> {}]
  /\ pushes = <<>>

NextAuth ==
  \/ \E r \in ReqIds, named \in BOOLEAN, phone \in Phones \cup {NoPhone},
        role \in RoleInputs : RequestOtp(r, named, phone, role)
  \/ \E r \in ReqIds, ok \in BOOLEAN : RoSelectUser(r, ok)
  \/ \E r \in ReqIds, ok \in BOOLEAN, code \in DrawnCodes, t \in Instants :
        RoInsertUser(r, ok, code, t)
  \/ \E r \in ReqIds, ok \in BOOLEAN, code \in DrawnCodes, t \in Instants :
        RoUpdateUser(r, ok, code, t)
  \/ \E r \in ReqIds, ok \in BOOLEAN : RoStoreOtp(r, ok)
  \/ \E st \in pending, ok \in BOOLEAN : RunEnsureSettings(st, ok)
  \/ \E r \in ReqIds, sid \in Sids, phone \in Phones \cup {NoPhone},
        code \in PresentedCodes, t \in Instants : VerifyOtp(r, sid, phone, code, t)
  \/ \E r \in ReqIds, ok \in BOOLEAN : VoSelectOtp(r, ok)
  \/ \E r \in ReqIds, ok \in BOOLEAN : VoSelectUser(r, ok)
  \/ \E st \in pending, ok \in BOOLEAN : RunDeleteOtp(st, ok)

SpecAuth == InitAuth /\ [][NextAuth]_vars

\* ========================================================== verify spec
\* The database after one request-otp for phone 1 has run: the user row exists
\* and the code it drew is stored, good for five minutes from instant 0.  From
\* there only verify-otp requests arrive.
InitIssued ==
  /\ users = {[id |-> 1, phone |-> 1, role |-> "elderly"]}
  /\ userSeq = 1
  /\ \E c \in DrawnCodes :
       otps = [p \in Phones |-> [code |-> JsString(c), expires_at |-> OtpTtlMs, issue |-> 0]]
  /\ settings = [u \in 1..NPhones |-> DefaultSettings]
  /\ sessions = [s \in Sids |-> NoUser]
  /\ now = 0
  /\ reqs = [r \in ReqIds |-> Blank]
  /\ nreq = 0
  /\ pending = {}
  /\ contacts = {}
  /\ messages = <<>>
  /\ exercises = <<>>
  /\ support = <<>>
  /\ sockets = <<>>
  /\ onlineUsers = {}
  /\ inbox = [s \in 1..MaxSockets |-> {}]
  /\ pushes = <<>>

NextVerify ==
  \/ \E r \in ReqIds, sid \in Sids, phone \in Phones \cup {NoPhone},
        code \in PresentedCodes, t \in Instants : VerifyOtp(r, sid, phone, code, t)
  \/ \E r \in ReqIds, ok \in BOOLEAN : VoSelectOtp(r, ok)
  \/ \E r \in ReqIds, ok \in BOOLEAN : VoSelectUser(r, ok)
  \/ \E st \in pending, ok \in BOOLEAN : RunDeleteOtp(st, ok)

SpecVerify == InitIssued /\ [][NextVerify]_vars

\* ========================================================= session spec
\* lines 188-190: GET /api/auth/me answers the session user and changes nothing.
AuthMe(r, sid) ==
  /\ NewReq(r)
  /\ nreq' = r
  /\ reqs' = [reqs EXCEPT ![r] =
       [Blank EXCEPT !.kind = "me", !.user = sessions[sid], !.status = 200,
                     !.body = "user", !.pc = "done"]]
  /\ UNCHANGED <<users, userSeq, otps, settings, sessions, now, pending>>
  /\ UNCHANGED appVars

\* lines 192-196: POST /api/auth/logout destroys the session, then answers ok.
Logout(r, sid) ==
  /\ NewReq(r)
  /\ nreq' = r
  /\ sessions' = [sessions EXCEPT ![sid] = NoUser]
  /\ reqs' = [reqs EXCEPT ![r] =
       [Blank EXCEPT !.kind = "logout", !.sid = sid, !.status = 200,
                     !.body = "ok", !.pc = "done"]]
  /\ UNCHANGED <<users, userSeq, otps, settings, now, pending>>
  /\ UNCHANGED appVars

\* Every authentication route, from the state after one issue.  The user row
\* of the phone exists and is never deleted, so request-otp always takes its
\* UPDATE branch.
NextSession ==
  \/ \E r \in ReqIds, named \in BOOLEAN, phone \in Phones \cup {NoPhone},
        role \in RoleInputs : RequestOtp(r, named, phone, role)
  \/ \E r \in ReqIds, ok \in BOOLEAN : RoSelectUser(r, ok)
  \/ \E r \in ReqIds, ok \in BOOLEAN, code \in DrawnCodes, t \in Instants :
        RoUpdateUser(r, ok, code, t)
  \/ \E r \in ReqIds, ok \in BOOLEAN : RoStoreOtp(r, ok)
  \/ \E st \in pending, ok \in BOOLEAN : RunEnsureSettings(st, ok)
  \/ \E r \in ReqIds, sid \in Sids, phone \in Phones \cup {NoPhone},
        code \in PresentedCodes, t \in Instants : VerifyOtp(r, sid, phone, code, t)
  \/ \E r \in ReqIds, ok \in BOOLEAN : VoSelectOtp(r, ok)
  \/ \E r \in ReqIds, ok \in BOOLEAN : VoSelectUser(r, ok)
  \/ \E st \in pending, ok \in BOOLEAN : RunDeleteOtp(st, ok)
  \/ \E r \in ReqIds, sid \in Sids : AuthMe(r, sid)
  \/ \E r \in ReqIds, sid \in Sids : Logout(r, sid)

SpecSession == InitIssued /\ [][NextSession]_vars

\* ====================================================== presence and relay
NoSock == 0
UserIds == 1..NUsers

\* parseInt(x, 10) of line 432/392/252 on a string given as its characters:
\* the value of the leading decimal digits, NaN when there is none.  NaN is a
\* key of its own in a Map (SameValueZero) and is falsy.
NaN == -1
Digits == <<"0", "1", "2", "3", "4", "5", "6", "7", "8", "9">>
IsDigit(c) == \E i \in 1..10 : Digits[i] = c
DigitVal(c) == (CHOOSE i \in 1..10 : Digits[i] = c) - 1
RECURSIVE ParseDigits(_, _)
ParseDigits(str, acc) ==
  IF str = <<>> \/ ~IsDigit(Head(str)) THEN acc
  ELSE ParseDigits(Tail(str), 10 * acc + DigitVal(Head(str)))
ParseInt(str) ==
  IF str = <<>> \/ ~IsDigit(Head(str)) THEN NaN ELSE ParseDigits(str, 0)

\* Map.prototype.set / delete / get / has on the set of entries
MapSetKeepsFirst(m, key, sock, role) ==
  IF \E e \in m : e.userId = key THEN m
  ELSE m \cup {[userId |-> key, socketId |-> sock, role |-> role]}
MapSet(m, key, sock, role) ==
  {e \in m : e.userId # key} \cup {[userId |-> key, socketId |-> sock, role |-> role]}
MapDeleteNothing(m, key) == m
MapDelete(m, key) == {e \in m : e.userId # key}
MapGet(m, key) == {e \in m : e.userId = key}
isOnline(userId) == MapGet(onlineUsers, userId) # {}

OpenSockets == {s \in 1..Len(sockets) : sockets[s].open}

\* io.emit: to every connected socket.  An event carries, besides its payload,
\* the connection whose opening or closing it announces.
BroadcastToContacts(box, open, ev) ==
  [s \in DOMAIN box |->
     IF /\ s \in open /\ s \in DOMAIN sockets
        /\ \E c \in contacts : c.user_id = ev.userId /\ c.contact_user_id = sockets[s].userId
     THEN box[s] \cup {ev} ELSE box[s]]
Broadcast(box, open, ev) == [s \in DOMAIN box |-> IF s \in open THEN box[s] \cup {ev} ELSE box[s]]

\* lines 429-439: the handshake middleware, then the connection handler.
\* A handshake without userId is refused and changes nothing.
Connect(userId, role) ==
  /\ Len(sockets) < MaxSockets
  /\ IF userId = <<>>
     THEN UNCHANGED relayVars
     ELSE LET sock == Len(sockets) + 1
              uid == ParseInt(userId)
              userRole == IF role = "none" THEN "elderly" ELSE role
          IN /\ sockets' = Append(sockets, [userId |-> uid, userRole |-> userRole, open |-> TRUE])
             /\ onlineUsers' = MapSet(onlineUsers, uid, sock, userRole)
             /\ inbox' = Broadcast(inbox, OpenSockets \cup {sock},
                                   [ev |-> "presence:update", userId |-> uid, online |-> TRUE,
                                    sock |-> sock])
             /\ UNCHANGED pushes
  /\ UNCHANGED <<authVars, settings, reqs, nreq, pending, tableVars>>

\* lines 441-444: the socket's disconnect handler.
Disconnect(sock) ==
  /\ sock \in OpenSockets
  /\ sockets' = [sockets EXCEPT ![sock].open = FALSE]
  /\ onlineUsers' = MapDelete(onlineUsers, sockets[sock].userId)
  /\ inbox' = Broadcast(inbox, OpenSockets \ {sock},
                        [ev |-> "presence:update", userId |-> sockets[sock].userId,
                         online |-> FALSE, sock |-> sock])
  /\ UNCHANGED pushes
  /\ UNCHANGED <<authVars, settings, reqs, nreq, pending, tableVars>>

\* emitToUser that keeps an event for an absent user until the next connection
EmitToUserBuffered(rl, userId, event, r) ==
  LET target == {e \in onlineUsers : e.userId = userId}
      next == Len(sockets) + 1
      sock == IF target = {} THEN NoSock ELSE (CHOOSE e \in target : TRUE).socketId
      log == Append(rl.pushes, [req |-> r, to |-> userId, event |-> event, sock |-> sock,
                                opened |-> Len(sockets)])
      dest == IF sock # NoSock THEN sock ELSE IF next \in DOMAIN rl.inbox THEN next ELSE NoSock
  IN [pushes |-> log,
      inbox |-> IF dest = NoSock THEN rl.inbox
                ELSE [rl.inbox EXCEPT ![dest] = @ \cup {[ev |-> event, push |-> Len(log)]}]]

\* lines 447-450: emitToUser, as a function of the relay's log and the inboxes.
\* rl = [pushes, inbox]; the entry logged keeps the socket the lookup returned
\* and how many connections had been opened by then.
EmitToUser(rl, userId, event, r) ==
  LET target == MapGet(onlineUsers, userId)
      sock == IF target = {} THEN NoSock ELSE (CHOOSE e \in target : TRUE).socketId
      log == Append(rl.pushes, [req |-> r, to |-> userId, event |-> event, sock |-> sock,
                                opened |-> Len(sockets)])
  IN [pushes |-> log,
      inbox |-> IF sock = NoSock THEN rl.inbox
                ELSE [rl.inbox EXCEPT ![sock] = @ \cup {[ev |-> event, push |-> Len(log)]}]]

\* recipients.forEach(rid => emitToUser(rid, ...))
RECURSIVE EmitToEach(_, _, _, _)
EmitToFirst(rl, ids, event, r) ==
  IF ids = <<>> THEN rl ELSE EmitToUser(rl, Head(ids), event, r)
EmitToEach(rl, ids, event, r) ==
  IF ids = <<>> THEN rl
  ELSE EmitToEach(EmitToUser(rl, Head(ids), event, r), Tail(ids), event, r)

Relay == [pushes |-> pushes, inbox |-> inbox]
RelayBecomes(rl) == pushes' = rl.pushes /\ inbox' = rl.inbox

\* ============================================================ handlers
\* lines 120-123
requireAuthPasses(user) == TRUE
requireAuth(user) == user # NoUser

InFlightApp == {q \in ReqIds : reqs[q].pc \notin {"idle", "done"}}
NewAppReq(r) == r = nreq + 1 /\ r \in ReqIds

Received(kind, user) == [Blank EXCEPT !.kind = kind, !.user = user]
Unauthorized(kind) == Finish(Received(kind, NoUser), 401, "unauthorized")

\* The ascending sequence of a set of ids (rows come back in rowid order; the
\* contacts of the initial state are taken to have been added in id order).
RECURSIVE SortedSeq(_)
SortedSeq(S) ==
  IF S = {} THEN <<>>
  ELSE LET m == CHOOSE x \in S : \A y \in S : x <= y IN <<m>> \o SortedSeq(S \ {m})

ContactIds(userId) == {c.contact_user_id : c \in {d \in contacts : d.user_id = userId}}
\* line 312: ... JOIN users u ON u.id = c.contact_user_id WHERE c.user_id = ? AND u.role = 'family'
FamilyContactIds(userId) ==
  {i \in ContactIds(userId) : \E u \in users : u.id = i /\ u.role = "family"}
\* FOREIGN KEY ... REFERENCES users(id) with PRAGMA foreign_keys = ON (line 28)
IsUserId(i) == \E u \in users : u.id = i

\* ---------------------------------------------- POST /api/notify/parent
\* line 389
AnyRole(user) == TRUE
IsFamily(user) == user.role = "family"

\* lines 388-394, one synchronous stretch.
NotifyParent(r, user, elderlyUserId) ==
  /\ NewAppReq(r)
  /\ nreq' = r
  /\ LET kind == "POST /api/notify/parent"
         rec == Received(kind, user)
     IN IF ~requireAuth(user)
        THEN reqs' = [reqs EXCEPT ![r] = Unauthorized(kind)] /\ UNCHANGED <<pushes, inbox>>
        ELSE IF ~IsFamily(user)
        THEN reqs' = [reqs EXCEPT ![r] = Finish(rec, 403, "forbidden")]
             /\ UNCHANGED <<pushes, inbox>>
        ELSE IF elderlyUserId = <<>>
        THEN reqs' = [reqs EXCEPT ![r] = Finish(rec, 400, "missing_elderlyUserId")]
             /\ UNCHANGED <<pushes, inbox>>
        ELSE /\ RelayBecomes(EmitToUser(Relay, ParseInt(elderlyUserId), "exercise:reminder", r))
             /\ reqs' = [reqs EXCEPT ![r] = Finish(rec, 200, "ok")]
  /\ UNCHANGED <<authVars, settings, pending, tableVars, sockets, onlineUsers>>

\* --------------------------------------------------- POST /api/messages
\* lines 261-270, 282-283: validation, then the first statement is issued.
PostMessages(r, user, hasContent, isGroup, toUserId) ==
  /\ NewAppReq(r)
  /\ nreq' = r
  /\ LET kind == "POST /api/messages"
         rec == Received(kind, user)
     IN reqs' = [reqs EXCEPT ![r] =
          IF ~requireAuth(user) THEN Unauthorized(kind)
          ELSE IF ~hasContent THEN Finish(rec, 400, "missing_content")
          ELSE IF isGroup THEN [rec EXCEPT !.pc = "mg_contacts"]
          ELSE IF toUserId = 0 THEN Finish(rec, 400, "missing_toUserId")
          ELSE [rec EXCEPT !.pc = "md_insert", !.to = toUserId]]
  /\ UNCHANGED <<authVars, settings, pending, tableVars, relayVars>>

\* lines 283-287: INSERT INTO messages (direct), then the push and the answer.
MdInsert(r, ok) ==
  /\ reqs[r].pc = "md_insert"
  /\ IF ok /\ IsUserId(reqs[r].user.id) /\ IsUserId(reqs[r].to)
     THEN /\ messages' = Append(messages, [from_user_id |-> reqs[r].user.id,
                                           to_user_id |-> reqs[r].to, is_group |-> 0,
                                           by |-> r])
          /\ RelayBecomes(EmitToUser(Relay, reqs[r].to, "message:new", r))
          /\ reqs' = [reqs EXCEPT ![r] = Respond(r, 200, "ok")]
     ELSE /\ reqs' = [reqs EXCEPT ![r] = Respond(r, 500, "db_error")]
          /\ UNCHANGED <<messages, pushes, inbox>>
  /\ UNCHANGED <<authVars, settings, nreq, pending, contacts, exercises, support,
                 sockets, onlineUsers>>

\* lines 270-275: SELECT contact_user_id FROM contacts WHERE user_id; the
\* prepared INSERT is run once per recipient and finalize is queued behind them.
MgSelectContacts(r, ok) ==
  /\ reqs[r].pc = "mg_contacts"
  /\ reqs' = [reqs EXCEPT ![r] =
       IF ~ok THEN Respond(r, 500, "db_error")
       ELSE [reqs[r] EXCEPT !.pc = "mg_insert",
                            !.recips = SortedSeq(ContactIds(reqs[r].user.id))]]
  /\ UNCHANGED <<authVars, settings, nreq, pending, tableVars, relayVars>>

\* line 275: one stmt.run; it has no callback, so a failure goes unseen
\* (nfail only counts them).
MgInsert(r, ok) ==
  /\ reqs[r].pc = "mg_insert"
  /\ reqs[r].k < Len(reqs[r].recips)
  /\ LET rid == reqs[r].recips[reqs[r].k + 1]
         stored == ok /\ IsUserId(reqs[r].user.id) /\ IsUserId(rid)
     IN /\ messages' = IF stored
                       THEN Append(messages, [from_user_id |-> reqs[r].user.id,
                                              to_user_id |-> rid, is_group |-> 1, by |-> r])
                       ELSE messages
        /\ reqs' = [reqs EXCEPT ![r].k = @ + 1,
                                ![r].nfail = IF stored THEN @ ELSE @ + 1]
  /\ UNCHANGED <<authVars, settings, nreq, pending, contacts, exercises, support, relayVars>>

\* lines 276-279: the finalize callback, after every run has executed.
MgFinalize(r) ==
  /\ reqs[r].pc = "mg_insert"
  /\ reqs[r].k = Len(reqs[r].recips)
  /\ RelayBecomes(EmitToEach(Relay, reqs[r].recips, "message:new", r))
  /\ reqs' = [reqs EXCEPT ![r] = Respond(r, 200, "ok")]
  /\ UNCHANGED <<authVars, settings, nreq, pending, tableVars, sockets, onlineUsers>>

\* --------------------------------------------------- POST /api/exercise
\* lines 292-297: validation, then the INSERT is issued.
PostExercise(r, user, valid) ==
  /\ NewAppReq(r)
  /\ nreq' = r
  /\ LET kind == "POST /api/exercise"
         rec == Received(kind, user)
     IN reqs' = [reqs EXCEPT ![r] =
          IF ~requireAuth(user) THEN Unauthorized(kind)
          ELSE IF ~valid THEN Finish(rec, 400, "missing_fields")
          ELSE [rec EXCEPT !.pc = "ex_insert"]]
  /\ UNCHANGED <<authVars, settings, pending, tableVars, relayVars>>

\* lines 297-307: INSERT INTO exercises.  For an elderly session the settings
\* read is issued, and the answer is sent without waiting for it.
ExInsert(r, ok) ==
  /\ reqs[r].pc = "ex_insert"
  /\ IF ok /\ IsUserId(reqs[r].user.id)
     THEN /\ exercises' = Append(exercises, [user_id |-> reqs[r].user.id, by |-> r])
          /\ reqs' = [reqs EXCEPT ![r] =
               IF reqs[r].user.role = "elderly"
               THEN [reqs[r] EXCEPT !.status = 200, !.body = "ok", !.pc = "ex_settings"]
               ELSE Respond(r, 200, "ok")]
     ELSE /\ reqs' = [reqs EXCEPT ![r] = Respond(r, 500, "db_error")]
          /\ UNCHANGED exercises
  /\ UNCHANGED <<authVars, settings, nreq, pending, contacts, messages, support, relayVars>>

\* line 302
NotifyWheneverRead(ok, sRow) == ok /\ sRow # NoRow
NotifyUnlessOff(ok, sRow) == ~ok \/ sRow = NoRow \/ sRow.family_notify_parent_done = 1
NotifyEnabled(ok, sRow) == ok /\ sRow # NoRow /\ sRow.family_notify_parent_done = 1

\* lines 301-304: SELECT family_notify_parent_done FROM settings.  flag keeps
\* what the table held when the statement ran, sok whether the read succeeded.
ExSettings(r, ok) ==
  /\ reqs[r].pc = "ex_settings"
  /\ LET sRow == settings[reqs[r].user.id]
         seen == [reqs[r] EXCEPT
                    !.flag = IF sRow = NoRow THEN "missing"
                             ELSE IF sRow.family_notify_parent_done = 1 THEN "1" ELSE "0",
                    !.sok = ok,
                    !.fam = FamilyContactIds(reqs[r].user.id)]
     IN reqs' = [reqs EXCEPT ![r] =
          IF NotifyEnabled(ok, sRow) THEN [seen EXCEPT !.pc = "ex_contacts"]
          ELSE Finish(seen, 200, "ok")]
  /\ UNCHANGED <<authVars, settings, nreq, pending, tableVars, relayVars>>

\* lines 310-317: notifyFamilyOfExercise; fam keeps the family contacts the
\* table held when the query ran, cok whether it succeeded.
ExContacts(r, ok) ==
  /\ reqs[r].pc = "ex_contacts"
  /\ LET fam == FamilyContactIds(reqs[r].user.id)
         seen == [reqs[r] EXCEPT !.fam = fam, !.cok = ok]
     IN /\ reqs' = [reqs EXCEPT ![r] = Finish(seen, 200, "ok")]
        /\ IF ok
           THEN RelayBecomes(EmitToEach(Relay, SortedSeq(fam), "exercise:completed", r))
           ELSE UNCHANGED <<pushes, inbox>>
  /\ UNCHANGED <<authVars, settings, nreq, pending, tableVars, sockets, onlineUsers>>

\* --------------------------------------------------- POST /api/settings
\* A toggle of the body: a number, or left out.
Given(n) == [given |-> TRUE, n |-> n]
Omitted == [given |-> FALSE, n |-> 0]
\* lines 377-379: typeof v === 'number' ? v : 1
ToggleOf(t) == IF t.given THEN t.n ELSE 1
SettingsBody(a, b, c) ==
  [elderly_notify_exercise |-> a, elderly_notify_checkup |-> b, family_notify_parent_done |-> c]
SettingsBodies ==
  {SettingsBody(Omitted, Omitted, Omitted), SettingsBody(Omitted, Omitted, Given(0)),
   SettingsBody(Given(0), Omitted, Omitted), SettingsBody(Omitted, Given(0), Given(1))}

\* line 369: the toggles the body supplies as numbers
ToggleNames == {"elderly_notify_exercise", "elderly_notify_checkup", "family_notify_parent_done"}
GivenIn(body) == {t \in ToggleNames : body[t].given}

\* lines 367-370
PostSettings(r, user) ==
  /\ NewAppReq(r)
  /\ nreq' = r
  /\ LET kind == "POST /api/settings"
     IN reqs' = [reqs EXCEPT ![r] =
          IF ~requireAuth(user) THEN Unauthorized(kind)
          ELSE [Received(kind, user) EXCEPT !.pc = "st_upsert"]]
  /\ UNCHANGED <<authVars, settings, pending, tableVars, relayVars>>

\* lines 370-384: INSERT ... ON CONFLICT(user_id) DO UPDATE with the three
\* values computed from the body.  The body is read by nothing before this
\* statement, so it is drawn here.  The row keeps, besides its columns, the
\* request that wrote it and the toggles that request supplied.
StUpsert(r, ok, body) ==
  /\ reqs[r].pc = "st_upsert"
  /\ IF ok /\ IsUserId(reqs[r].user.id)
     THEN /\ settings' = [settings EXCEPT ![reqs[r].user.id] =
               [elderly_notify_exercise |-> ToggleOf(body.elderly_notify_exercise),
                elderly_notify_checkup |-> ToggleOf(body.elderly_notify_checkup),
                family_notify_parent_done |-> ToggleOf(body.family_notify_parent_done),
                by |-> r, given |-> GivenIn(body)]]
          /\ reqs' = [reqs EXCEPT ![r] = Respond(r, 200, "ok")]
     ELSE /\ reqs' = [reqs EXCEPT ![r] = Respond(r, 500, "db_error")]
          /\ UNCHANGED settings
  /\ UNCHANGED <<authVars, nreq, pending, tableVars, relayVars>>

\* ---------------------------------------------------- POST /api/support
\* lines 405-410
PostSupport(r, user, hasContent) ==
  /\ NewAppReq(r)
  /\ nreq' = r
  /\ LET kind == "POST /api/support"
         rec == Received(kind, user)
     IN reqs' = [reqs EXCEPT ![r] =
          IF ~requireAuth(user) THEN Unauthorized(kind)
          ELSE IF ~hasContent THEN Finish(rec, 400, "missing_content")
          ELSE [rec EXCEPT !.pc = "su_insert"]]
  /\ UNCHANGED <<authVars, settings, pending, tableVars, relayVars>>

\* lines 410-414: the user's message, then the auto-reply insert is issued.
SuInsert(r, ok) ==
  /\ reqs[r].pc = "su_insert"
  /\ IF ok /\ IsUserId(reqs[r].user.id)
     THEN /\ support' = Append(support, [user_id |-> reqs[r].user.id, is_bot |-> 0, by |-> r])
          /\ reqs' = [reqs EXCEPT ![r].pc = "su_reply"]
     ELSE /\ reqs' = [reqs EXCEPT ![r] = Respond(r, 500, "db_error")]
          /\ UNCHANGED support
  /\ UNCHANGED <<authVars, settings, nreq, pending, contacts, messages, exercises, relayVars>>

\* lines 414-416: the bot row; its callback ignores the error.
SuReply(r, ok) ==
  /\ reqs[r].pc = "su_reply"
  /\ support' = IF ok /\ IsUserId(reqs[r].user.id)
                THEN Append(support, [user_id |-> reqs[r].user.id, is_bot |-> 1, by |-> r])
                ELSE support
  /\ reqs' = [reqs EXCEPT ![r] = Respond(r, 200, "ok")]
  /\ UNCHANGED <<authVars, settings, nreq, pending, contacts, messages, exercises, relayVars>>

\* ------------------------------------------------ POST /api/contacts/add
\* lines 222-226
PostContactsAdd(r, user, phone) ==
  /\ NewAppReq(r)
  /\ nreq' = r
  /\ LET kind == "POST /api/contacts/add"
         rec == Received(kind, user)
     IN reqs' = [reqs EXCEPT ![r] =
          IF ~requireAuth(user) THEN Unauthorized(kind)
          ELSE IF phone = NoPhone THEN Finish(rec, 400, "missing_phone")
          ELSE [rec EXCEPT !.pc = "ca_select", !.phone = phone]]
  /\ UNCHANGED <<authVars, settings, pending, tableVars, relayVars>>

\* lines 226-245: SELECT users WHERE phone; both ensureSettings and the first
\* INSERT OR IGNORE are issued.
CaSelect(r, ok) ==
  /\ reqs[r].pc = "ca_select"
  /\ LET rows == UserByPhone(reqs[r].phone)
         otherId == (CHOOSE u \in rows : TRUE).id
     IN IF ~ok
        THEN reqs' = [reqs EXCEPT ![r] = Respond(r, 500, "db_error")] /\ UNCHANGED pending
        ELSE IF rows = {}
        THEN reqs' = [reqs EXCEPT ![r] = Respond(r, 404, "user_not_found")] /\ UNCHANGED pending
        ELSE IF otherId = reqs[r].user.id
        THEN reqs' = [reqs EXCEPT ![r] = Respond(r, 400, "cannot_add_self")] /\ UNCHANGED pending
        ELSE /\ reqs' = [reqs EXCEPT ![r].pc = "ca_link1", ![r].to = otherId]
             /\ pending' = pending \cup
                  {[op |-> "ensureSettings", arg |-> reqs[r].user.id, req |-> r],
                   [op |-> "ensureSettings", arg |-> otherId, req |-> r]}
  /\ UNCHANGED <<authVars, settings, nreq, tableVars, relayVars>>

\* INSERT OR IGNORE INTO contacts: UNIQUE(user_id, contact_user_id), both
\* columns REFERENCES users(id).
InsertOrIgnoreContact(tbl, a, b, r) ==
  IF \E c \in tbl : c.user_id = a /\ c.contact_user_id = b THEN tbl
  ELSE tbl \cup {[user_id |-> a, contact_user_id |-> b, by |-> r]}

\* lines 233-235
CaLink1(r, ok) ==
  /\ reqs[r].pc = "ca_link1"
  /\ IF ok /\ IsUserId(reqs[r].user.id) /\ IsUserId(reqs[r].to)
     THEN /\ contacts' = InsertOrIgnoreContact(contacts, reqs[r].user.id, reqs[r].to, r)
          /\ reqs' = [reqs EXCEPT ![r].pc = "ca_link2"]
     ELSE /\ reqs' = [reqs EXCEPT ![r] = Respond(r, 500, "db_error")]
          /\ UNCHANGED contacts
  /\ UNCHANGED <<authVars, settings, nreq, pending, messages, exercises, support, relayVars>>

\* lines 235-238
CaLink2(r, ok) ==
  /\ reqs[r].pc = "ca_link2"
  /\ IF ok /\ IsUserId(reqs[r].user.id) /\ IsUserId(reqs[r].to)
     THEN /\ contacts' = InsertOrIgnoreContact(contacts, reqs[r].to, reqs[r].user.id, r)
          /\ reqs' = [reqs EXCEPT ![r] = Respond(r, 200, "ok")]
     ELSE /\ reqs' = [reqs EXCEPT ![r] = Respond(r, 500, "db_error")]
          /\ UNCHANGED contacts
  /\ UNCHANGED <<authVars, settings, nreq, pending, messages, exercises, support, relayVars>>

\* --------------------------------------------------- the GET endpoints
\* Each is requireAuth, one SELECT, and an answer built from the rows (lines
\* 212-220, 250-259, 319-356, 359-365, 397-403).
ReadRoutes ==
  {"GET /api/contacts", "GET /api/exercise/today", "GET /api/exercise/records",
   "GET /api/exercise/summary/week", "GET /api/exercise/summary/month",
   "GET /api/settings", "GET /api/support"}

Get(r, user, route) ==
  /\ NewAppReq(r)
  /\ nreq' = r
  /\ route \in ReadRoutes
  /\ reqs' = [reqs EXCEPT ![r] =
       IF ~requireAuth(user) THEN Unauthorized(route)
       ELSE [Received(route, user) EXCEPT !.pc = "get_select"]]
  /\ UNCHANGED <<authVars, settings, pending, tableVars, relayVars>>

\* lines 250-255: GET /api/messages/:contactId refuses a contactId that
\* parses to NaN or 0.
GetMessages(r, user, contactId) ==
  /\ NewAppReq(r)
  /\ nreq' = r
  /\ LET kind == "GET /api/messages/:contactId"
     IN reqs' = [reqs EXCEPT ![r] =
          IF ~requireAuth(user) THEN Unauthorized(kind)
          ELSE IF ParseInt(contactId) \in {NaN, 0}
          THEN Finish(Received(kind, user), 400, "invalid_contact")
          ELSE [Received(kind, user) EXCEPT !.pc = "get_select"]]
  /\ UNCHANGED <<authVars, settings, pending, tableVars, relayVars>>

GetSelect(r, ok) ==
  /\ reqs[r].pc = "get_select"
  /\ reqs' = [reqs EXCEPT ![r] =
       IF ok THEN Respond(r, 200, "rows") ELSE Respond(r, 500, "db_error")]
  /\ UNCHANGED <<authVars, settings, nreq, pending, tableVars, relayVars>>

ProtectedRoutes ==
  ReadRoutes \cup {"GET /api/messages/:contactId", "POST /api/contacts/add", "POST /api/messages", "POST /api/exercise",
                   "POST /api/settings", "POST /api/notify/parent", "POST /api/support"}

\* ============================================================= app spec
\* The state after three users have signed up (request-otp, ensureSettings),
\* each has verified an OTP in a browser of their own (session i holds user i),
\* and user 1 has added user 2, or users 2 and 3, as contacts.
AppUser(i, role) == [id |-> i, phone |-> i, role |-> role]
Pair(a, b) == {[user_id |-> a, contact_user_id |-> b, by |-> 0],
               [user_id |-> b, contact_user_id |-> a, by |-> 0]}

InitApp ==
  /\ \E role3 \in Roles :
       users = {AppUser(1, "elderly"), AppUser(2, "family"), AppUser(3, role3)}
  /\ userSeq = NUsers
  /\ otps = [p \in Phones |-> NoRow]
  /\ \E row1 \in {DefaultSettings, NoRow} :
       settings = [u \in UserIds |-> IF u = 1 THEN row1 ELSE DefaultSettings]
  /\ sessions = [s \in UserIds |-> rowToUser(CHOOSE u \in users : u.id = s)]
  /\ now = 0
  /\ reqs = [r \in ReqIds |-> Blank]
  /\ nreq = 0
  /\ pending = {}
  /\ contacts \in {Pair(1, 2), Pair(1, 2) \cup Pair(1, 3)}
  /\ messages = <<>>
  /\ exercises = <<>>
  /\ support = <<>>
  /\ sockets = <<>>
  /\ onlineUsers = {}
  /\ inbox = [s \in 1..MaxSockets |-> {}]
  /\ pushes = <<>>

\* The cookie of a request: a session id of the store, or none.
Cookies == {0} \cup UserIds
SessionUser(sid) == IF sid \in DOMAIN sessions THEN sessions[sid] ELSE NoUser

\* What clients send as an id: a decimal string, a string that is no
\* number, or nothing.
RawIds == {<<>>, <<"1">>, <<"2">>, <<"3">>, <<"x">>}
HandshakeRoles == {"family", "none"}
ToUserIds == 0..(NUsers + 1)
AddPhones == 0..(NUsers + 1)

\* A request arrives: the next request slot is free.
CanReceive == nreq < MaxAppReqs /\ Cardinality(InFlightApp) < MaxInFlight

NextApp ==
  \/ CanReceive /\ \E sid \in Cookies, elderlyUserId \in RawIds :
        NotifyParent(nreq + 1, SessionUser(sid), elderlyUserId)
  \/ CanReceive /\ \E sid \in Cookies, hasContent, isGroup \in BOOLEAN, toUserId \in ToUserIds :
        PostMessages(nreq + 1, SessionUser(sid), hasContent, isGroup, toUserId)
  \/ \E r \in InFlightApp, ok \in BOOLEAN : MdInsert(r, ok)
  \/ \E r \in InFlightApp, ok \in BOOLEAN : MgSelectContacts(r, ok)
  \/ \E r \in InFlightApp, ok \in BOOLEAN : MgInsert(r, ok)
  \/ \E r \in InFlightApp : MgFinalize(r)
  \/ CanReceive /\ \E sid \in Cookies, valid \in BOOLEAN :
        PostExercise(nreq + 1, SessionUser(sid), valid)
  \/ \E r \in InFlightApp, ok \in BOOLEAN : ExInsert(r, ok)
  \/ \E r \in InFlightApp, ok \in BOOLEAN : ExSettings(r, ok)
  \/ \E r \in InFlightApp, ok \in BOOLEAN : ExContacts(r, ok)
  \/ CanReceive /\ \E sid \in Cookies : PostSettings(nreq + 1, SessionUser(sid))
  \/ \E r \in InFlightApp, ok \in BOOLEAN, body \in SettingsBodies : StUpsert(r, ok, body)
  \/ CanReceive /\ \E sid \in Cookies, hasContent \in BOOLEAN :
        PostSupport(nreq + 1, SessionUser(sid), hasContent)
  \/ \E r \in InFlightApp, ok \in BOOLEAN : SuInsert(r, ok)
  \/ \E r \in InFlightApp, ok \in BOOLEAN : SuReply(r, ok)
  \/ CanReceive /\ \E sid \in Cookies, phone \in AddPhones :
        PostContactsAdd(nreq + 1, SessionUser(sid), phone)
  \/ \E r \in InFlightApp, ok \in BOOLEAN : CaSelect(r, ok)
  \/ \E r \in InFlightApp, ok \in BOOLEAN : CaLink1(r, ok)
  \/ \E r \in InFlightApp, ok \in BOOLEAN : CaLink2(r, ok)
  \/ \E st \in pending, ok \in BOOLEAN : RunEnsureSettings(st, ok)
  \/ CanReceive /\ \E sid \in Cookies, route \in ReadRoutes :
        Get(nreq + 1, SessionUser(sid), route)
  \/ CanReceive /\ \E sid \in Cookies, contactId \in RawIds :
        GetMessages(nreq + 1, SessionUser(sid), contactId)
  \/ \E r \in InFlightApp, ok \in BOOLEAN : GetSelect(r, ok)

SpecApp == InitApp /\ [][NextApp]_vars

\* ============================================================ relay spec
\* Connections opening and closing around the handlers that push.
CanReceiveRelay == nreq < MaxRelayReqs /\ Cardinality(InFlightApp) < MaxInFlight

NextRelay ==
  \/ \E userId \in RawIds, role \in HandshakeRoles : Connect(userId, role)
  \/ \E sock \in OpenSockets : Disconnect(sock)
  \/ CanReceiveRelay /\ \E sid \in Cookies, elderlyUserId \in RawIds :
        NotifyParent(nreq + 1, SessionUser(sid), elderlyUserId)
  \/ CanReceiveRelay /\ \E sid \in Cookies, hasContent, isGroup \in BOOLEAN, toUserId \in ToUserIds :
        PostMessages(nreq + 1, SessionUser(sid), hasContent, isGroup, toUserId)
  \/ \E r \in InFlightApp, ok \in BOOLEAN : MdInsert(r, ok)
  \/ \E r \in InFlightApp, ok \in BOOLEAN : MgSelectContacts(r, ok)
  \/ \E r \in InFlightApp, ok \in BOOLEAN : MgInsert(r, ok)
  \/ \E r \in InFlightApp : MgFinalize(r)
  \/ CanReceiveRelay /\ \E sid \in Cookies, valid \in BOOLEAN :
        PostExercise(nreq + 1, SessionUser(sid), valid)
  \/ \E r \in InFlightApp, ok \in BOOLEAN : ExInsert(r, ok)
  \/ \E r \in InFlightApp, ok \in BOOLEAN : ExSettings(r, ok)
  \/ \E r \in InFlightApp, ok \in BOOLEAN : ExContacts(r, ok)

SpecRelay == InitApp /\ [][NextRelay]_vars

\* ============================================================ claims, auth
VerifiedOk(r) == reqs[r].kind = "verify-otp" /\ reqs[r].status = 200

\* C1: OTP single use.  Of the verify-otp requests that present the correct
\* code of one stored OTP record (the record written by one issue, hence no
\* reissue in between), at most one establishes a session, however the
\* requests interleave.
C1_SingleUse ==
  \A r1, r2 \in ReqIds :
    (r1 # r2 /\ VerifiedOk(r1) /\ VerifiedOk(r2)) => reqs[r1].seen # reqs[r2].seen

\* C2: OTP expiry.  A verify-otp request that presents the stored code
\* establishes a session only if the instant it read is before the record's
\* expiry (now < expires_at); at now = expires_at it must fail.
C2_ExpiryStrict ==
  [][\A r \in ReqIds :
       (reqs[r].pc = "vo_user" /\ reqs'[r].status = 200) => reqs[r].now < reqs[r].expires]_vars

\* C3: whenever request-otp answers ok for a phone, the OTP record of that
\* phone holds exactly the issued code, with expiry = issue time + 5 minutes.
C3_OkMeansStored ==
  [][\A r \in ReqIds :
       (reqs[r].pc = "ro_store" /\ reqs'[r].status = 200) =>
         /\ otps'[reqs[r].phone] # NoRow
         /\ otps'[reqs[r].phone].code = reqs[r].code
         /\ otps'[reqs[r].phone].expires_at = reqs[r].now + OtpTtlMs
         /\ otps'[reqs[r].phone].issue = r]_vars

\* ============================================================ claims, relay
PushIds == 1..Len(pushes)
PushesBy(r) == {i \in PushIds : pushes[i].req = r}
PushesTo(r, u) == {i \in PushesBy(r) : pushes[i].to = u}
Delivered(i) == {s \in DOMAIN inbox : \E e \in inbox[s] : e.ev # "presence:update" /\ e.push = i}
SocketsOf(u) == {s \in 1..Len(sockets) : sockets[s].userId = u}
Range(f) == {f[i] : i \in DOMAIN f}

\* C4: in the state right after a connection of user U opens, U is a key of
\* the presence registry; in the state right after a connection of U closes,
\* U is not.
C4_OnlineAfterConnect ==
  [][/\ Len(sockets') = Len(sockets) + 1 =>
          MapGet(onlineUsers', sockets'[Len(sockets')].userId) # {}
     /\ \A s \in OpenSockets :
          ~sockets'[s].open => MapGet(onlineUsers', sockets[s].userId) = {}]_vars

C4_Witness ==
  \E s1, s2 \in 1..Len(sockets) :
    /\ sockets[s1].open /\ isOnline(sockets[s1].userId)
    /\ ~sockets[s2].open /\ ~isOnline(sockets[s2].userId)

\* C5: reconnect overwrite.  The registry holds at most one entry per user;
\* an entry's handle is the latest connection of its user; and every push that
\* was sent went to the connection of the addressed user that was the latest
\* one opened by then, and to no other connection.
C5_LatestConnectionOnly ==
  /\ \A e1, e2 \in onlineUsers : e1.userId = e2.userId => e1 = e2
  /\ \A e \in onlineUsers :
       e.socketId \in SocketsOf(e.userId) /\ \A s \in SocketsOf(e.userId) : s <= e.socketId
  /\ \A i \in PushIds :
       /\ Delivered(i) = IF pushes[i].sock = NoSock THEN {} ELSE {pushes[i].sock}
       /\ pushes[i].sock # NoSock =>
            /\ pushes[i].sock \in SocketsOf(pushes[i].to)
            /\ \A s \in SocketsOf(pushes[i].to) : s <= pushes[i].opened => s <= pushes[i].sock

C5_Witness ==
  \E i \in PushIds :
    /\ pushes[i].sock = 2
    /\ sockets[1].userId = pushes[i].to /\ sockets[1].open
    /\ Delivered(i) = {2}

\* C6: drop on absence.  A push to a user with no presence entry is answered
\* like any other (ok), reaches no connection and is kept nowhere: no
\* connection opened after a push ever receives it.
C6_DropOnAbsence ==
  \A i \in PushIds :
    /\ pushes[i].sock = NoSock => Delivered(i) = {} /\ reqs[pushes[i].req].status = 200
    /\ \A s \in Delivered(i) : s <= pushes[i].opened

C6_Witness ==
  \E i \in PushIds :
    /\ pushes[i].sock = NoSock
    /\ \E s \in SocketsOf(pushes[i].to) : s > pushes[i].opened /\ sockets[s].open

\* ---------------------------------------------------------------- C7
MessagesBy(r) == {i \in 1..Len(messages) : messages[i].by = r}
GroupSent(r) ==
  /\ reqs[r].kind = "POST /api/messages" /\ reqs[r].pc = "done"
  /\ reqs[r].status = 200 /\ reqs[r].to = 0

ExerciseLogged(r) ==
  reqs[r].kind = "POST /api/exercise" /\ reqs[r].pc = "done" /\ reqs[r].status = 200
OnePushEach(r, ids) ==
  /\ \A c \in ids : Cardinality(PushesTo(r, c)) = 1
  /\ \A i \in PushesBy(r) : pushes[i].to \in ids /\ pushes[i].event = "exercise:completed"

\* C8 as claimed: an exercise logged by an elderly user pushes
\* exercise:completed once to each family contact if the stored
\* family_notify_parent_done is 1 and not at all if it is 0; a non-elderly
\* user's exercise pushes nothing.
C8_FlagDecides ==
  \A r \in ReqIds : ExerciseLogged(r) =>
    /\ (reqs[r].user.role = "elderly" /\ reqs[r].flag = "1") => OnePushEach(r, reqs[r].fam)
    /\ (reqs[r].user.role = "elderly" /\ reqs[r].flag = "0") => PushesBy(r) = {}
    /\ reqs[r].user.role # "elderly" => PushesBy(r) = {}

\* C8 as amended: the pushes are made if the session role is elderly, the
\* settings read succeeds and returns family_notify_parent_done = 1, and the
\* contact query succeeds: then one exercise:completed push goes to each
\* contact whose role is family and to nobody else.  In every other case (flag
\* not 1, row missing, a failed read or query, another role) there is no push.
C8_ExerciseFanOut ==
  \A r \in ReqIds : ExerciseLogged(r) =>
    IF reqs[r].user.role = "elderly" /\ reqs[r].sok /\ reqs[r].flag = "1" /\ reqs[r].cok
    THEN /\ OnePushEach(r, reqs[r].fam)
         /\ \A i \in PushesBy(r) :
              /\ pushes[i].to \in ContactIds(reqs[r].user.id)
              /\ \E u \in users : u.id = pushes[i].to /\ u.role = "family"
    ELSE PushesBy(r) = {}

C8_Witness ==
  \E r \in ReqIds :
    /\ ExerciseLogged(r) /\ reqs[r].user.role = "elderly"
    /\ reqs[r].sok /\ reqs[r].flag = "1" /\ reqs[r].cok
    /\ reqs[r].fam = {2} /\ ContactIds(reqs[r].user.id) = {2, 3}
    /\ Cardinality(PushesBy(r)) = 1

\* C9: a request to a session-protected endpoint that carries no session user
\* is answered 401 unauthorized at once, and no row of any table, no statement
\* and no push comes from it.
WroteNothing(r) ==
  /\ \A i \in 1..Len(messages) : messages[i].by # r
  /\ \A i \in 1..Len(exercises) : exercises[i].by # r
  /\ \A i \in 1..Len(support) : support[i].by # r
  /\ \A c \in contacts : c.by # r
  /\ \A u \in DOMAIN settings : settings[u] # NoRow => settings[u].by # r
  /\ \A st \in pending : st.req # r

C9_Unauthorized ==
  \A r \in ReqIds :
    (reqs[r].kind \in ProtectedRoutes /\ reqs[r].user = NoUser) =>
      /\ reqs[r].status = 401 /\ reqs[r].body = "unauthorized" /\ reqs[r].pc = "done"
      /\ WroteNothing(r)
      /\ PushesBy(r) = {}

C9_Witness ==
  \E r1, r2 \in ReqIds :
    /\ reqs[r1].kind = "POST /api/messages" /\ reqs[r1].status = 401
    /\ reqs[r2].kind = "POST /api/notify/parent" /\ reqs[r2].status = 401

\* C10: an exercise:reminder push comes only from a POST /api/notify/parent
\* whose session user has role family; with any other role the request is
\* answered 403 forbidden and pushes nothing.
C10_ReminderOnlyFromFamily ==
  /\ \A i \in PushIds :
       pushes[i].event = "exercise:reminder" =>
         /\ reqs[pushes[i].req].kind = "POST /api/notify/parent"
         /\ reqs[pushes[i].req].user.role = "family"
  /\ \A r \in ReqIds :
       (reqs[r].kind = "POST /api/notify/parent" /\ reqs[r].user # NoUser
          /\ reqs[r].user.role # "family") =>
         /\ reqs[r].status = 403 /\ reqs[r].body = "forbidden"
         /\ PushesBy(r) = {}

C10_Witness ==
  \E r1, r2 \in ReqIds :
    /\ reqs[r1].kind = "POST /api/notify/parent" /\ reqs[r1].status = 403
    /\ reqs[r2].kind = "POST /api/notify/parent" /\ reqs[r2].status = 200
    /\ \E i \in PushesBy(r2) : pushes[i].event = "exercise:reminder"

\* ============================================================ claims, contacts
HasContact(a, b) == \E c \in contacts : c.user_id = a /\ c.contact_user_id = b
AddInFlight == \E r \in ReqIds : reqs[r].pc \in {"ca_select", "ca_link1", "ca_link2"}
AddAnsweredOk(r) == reqs[r].kind = "POST /api/contacts/add" /\ reqs[r].status = 200

\* C11: contact symmetry.  After an add of B by A answered ok both rows (A,B)
\* and (B,A) exist; whenever no add is under way the contacts relation is
\* symmetric; and no pair is ever stored twice.
C11_ContactSymmetry ==
  /\ \A r \in ReqIds : AddAnsweredOk(r) =>
       HasContact(reqs[r].user.id, reqs[r].to) /\ HasContact(reqs[r].to, reqs[r].user.id)
  /\ ~AddInFlight => \A c \in contacts : HasContact(c.contact_user_id, c.user_id)
  /\ \A c, d \in contacts :
       (c.user_id = d.user_id /\ c.contact_user_id = d.contact_user_id) => c = d

\* ============================================================ claims, presence
PresenceOf(socks, c, online) ==
  [ev |-> "presence:update", userId |-> socks[c].userId, online |-> online, sock |-> c]
PresenceEvent(c, online) == PresenceOf(sockets, c, online)
NowOpen == {s \in 1..Len(sockets) : sockets[s].open}

\* C12: presence broadcast.  A step that opens a connection adds
\* presence:update {userId, online: true} to the inbox of every connection
\* open at that moment, the new one included, and to no other; a step that
\* closes a connection adds presence:update {userId, online: false} to the
\* inbox of every connection still open, and to no other.  Who is a contact of
\* whom plays no part.
C12_PresenceBroadcast ==
  [][/\ Len(sockets') = Len(sockets) + 1 =>
          \A s \in DOMAIN inbox :
            /\ PresenceOf(sockets', Len(sockets'), TRUE) \notin inbox[s]
            /\ inbox'[s] = IF s \in NowOpen' THEN inbox[s] \cup {PresenceOf(sockets', Len(sockets'), TRUE)}
                           ELSE inbox[s]
     /\ \A c \in OpenSockets : ~sockets'[c].open =>
          \A s \in DOMAIN inbox :
            /\ PresenceEvent(c, FALSE) \notin inbox[s]
            /\ inbox'[s] = IF s \in NowOpen' THEN inbox[s] \cup {PresenceEvent(c, FALSE)}
                           ELSE inbox[s]]_vars

\* A connection whose user is no contact of user U has been told both that U
\* came online and that U went offline.
C12_Witness ==
  \E s, c \in 1..Len(sockets) :
    /\ s # c /\ ~HasContact(sockets[c].userId, sockets[s].userId)
    /\ PresenceEvent(c, TRUE) \in inbox[s] /\ PresenceEvent(c, FALSE) \in inbox[s]
    /\ PresenceEvent(c, TRUE) \in inbox[c] /\ PresenceEvent(c, FALSE) \notin inbox[c]

\* C13: single writer per key.  The close of a connection c changes the
\* registry only if c is the handle registered for its user: when another
\* connection is registered for that user, the registry stays as it is.
C13_SingleWriterPerKey ==
  [][\A c \in OpenSockets :
       (~sockets'[c].open /\ \A e \in MapGet(onlineUsers, sockets[c].userId) : e.socketId # c)
         => onlineUsers' = onlineUsers]_vars

\* ============================================================ claims, auth II
\* C14: newest code only.  When a verify-otp establishes a session, every
\* request-otp for that phone that was answered ok after the issue whose record
\* the verify checked had drawn the very code the verify presented: no code
\* older than a completed reissue signs in.
C14_NewestCodeOnly ==
  [][\A r \in ReqIds :
       (reqs[r].pc = "vo_user" /\ reqs'[r].status = 200) =>
         \A q \in IssuesAnswered :
           (reqs[q].phone = reqs[r].phone /\ reqs[q].seen > reqs[reqs[r].seen].seen)
             => reqs[q].code = reqs[r].code]_vars

\* C15: a failed verify changes nothing.  The step in which a verify-otp is
\* answered otp_invalid or otp_expired, like the step in which it arrived,
\* leaves the otps table, the sessions and the statements in flight as they
\* were; and however many verifies failed before, a verify that presents the
\* stored code before its expiry is not turned down: it passes the checks
\* unless the read itself fails.
VerifyTurnedDown(rec) == rec.kind = "verify-otp" /\ rec.body \in {"otp_invalid", "otp_expired"}

C15_FailedVerifyLeavesRecord ==
  [][\A r \in ReqIds :
       /\ (reqs[r].pc = "idle" /\ reqs'[r].kind = "verify-otp") =>
            otps' = otps /\ sessions' = sessions /\ pending' = pending
       /\ (reqs[r].pc = "vo_otp" /\ VerifyTurnedDown(reqs'[r])) =>
            otps' = otps /\ sessions' = sessions /\ pending' = pending
       /\ (/\ reqs[r].pc = "vo_otp" /\ reqs'[r].pc # "vo_otp"
           /\ otps[reqs[r].phone] # NoRow
           /\ otps[reqs[r].phone].code = reqs[r].code
           /\ reqs[r].now < otps[reqs[r].phone].expires_at) =>
            reqs'[r].pc = "vo_user" \/ reqs'[r].status = 500]_vars

\* Two verifies of a phone were turned down for their code, and a third then
\* signed in with the record they had left in place.
C15_Witness ==
  \E r1, r2, r3 \in ReqIds :
    /\ r1 < r2 /\ r2 < r3
    /\ reqs[r1].kind = "verify-otp" /\ reqs[r1].body = "otp_invalid"
    /\ reqs[r2].kind = "verify-otp" /\ reqs[r2].body = "otp_invalid"
    /\ VerifiedOk(r3) /\ \E sid \in Sids : sessions[sid] # NoUser

\* ============================================================ claims, errors
SupportRowsBy(r, bot) == {i \in 1..Len(support) : support[i].by = r /\ support[i].is_bot = bot}

\* C16: storage errors are surfaced.  A group send of which an insert failed
\* is answered 500 db_error, and so is a support message whose bot reply was
\* not stored after the user's message was.
C16_StorageErrorsSurfaced ==
  \A r \in ReqIds : reqs[r].pc = "done" =>
    /\ reqs[r].nfail > 0 => reqs[r].status = 500 /\ reqs[r].body = "db_error"
    /\ (/\ reqs[r].kind = "POST /api/support"
        /\ SupportRowsBy(r, 0) # {} /\ SupportRowsBy(r, 1) = {}) =>
         reqs[r].status = 500 /\ reqs[r].body = "db_error"

\* C17: settings-read failure during the exercise fan-out.  From the moment
\* the exercise row of an elderly user's request is stored, the request stands
\* answered 200 ok with that one row, whatever the settings read and the
\* fan-out do afterwards; and when the settings read failed or found no row,
\* the request made no push.
ExercisesBy(r) == {i \in 1..Len(exercises) : exercises[i].by = r}

C17_SettingsReadFailure ==
  \A r \in ReqIds :
    (reqs[r].kind = "POST /api/exercise" /\ ExercisesBy(r) # {}) =>
      /\ reqs[r].status = 200 /\ reqs[r].body = "ok"
      /\ Cardinality(ExercisesBy(r)) = 1
      /\ (/\ reqs[r].pc = "done" /\ reqs[r].user.role = "elderly"
          /\ (~reqs[r].sok \/ reqs[r].flag = "missing")) => PushesBy(r) = {}

\* Two exercises of a user with a family contact and the stored flag at 1:
\* the settings read of the first failed and it pushed nothing, the read of the
\* second succeeded and it pushed; both were answered ok.
C17_Witness ==
  \E r1, r2 \in ReqIds :
    /\ ExercisesBy(r1) # {} /\ reqs[r1].pc = "done" /\ reqs[r1].status = 200
    /\ ~reqs[r1].sok /\ reqs[r1].flag = "1" /\ reqs[r1].fam # {}
    /\ PushesBy(r1) = {}
    /\ ExercisesBy(r2) # {} /\ reqs[r2].pc = "done" /\ reqs[r2].status = 200
    /\ reqs[r2].sok /\ reqs[r2].flag = "1" /\ PushesBy(r2) # {}

\* ============================================================ claims, auth III
\* C18: the record deletion of a verify-otp removes only the record that
\* verify checked.  When the DELETE issued by verify r executes and the otps
\* table holds, for that phone, a record written by another issue than the one
\* r checked, the table stays as it is.
C18_DeleteSparesLaterCode ==
  [][\A st \in pending :
       (/\ st.op = "deleteOtp" /\ st \notin pending'
        /\ otps[st.arg] # NoRow /\ otps[st.arg].issue # reqs[st.req].seen)
         => otps' = otps]_vars

\* C19: a session user is set only by verify-otp.  A verify passes its checks
\* only with the code the record of its phone holds at that moment; a session
\* changes only in the step in which such a verify is answered ok, to the id,
\* phone and role of the user row of that phone, or in a logout of that
\* session, to no user; and a logout always leaves its session without user.
C19_SessionSetOnlyByVerify ==
  [][/\ \A r \in ReqIds :
          (reqs[r].pc = "vo_otp" /\ reqs'[r].pc = "vo_user") =>
            otps[reqs[r].phone] # NoRow /\ otps[reqs[r].phone].code = reqs[r].code
     /\ \A r \in ReqIds :
          (reqs[r].pc = "idle" /\ reqs'[r].kind = "logout") =>
            sessions'[reqs'[r].sid] = NoUser
     /\ \A sid \in Sids :
          sessions'[sid] # sessions[sid] =>
            \/ \E r \in ReqIds :
                 /\ reqs[r].pc = "vo_user" /\ reqs[r].sid = sid /\ reqs'[r].status = 200
                 /\ \E u \in users :
                      /\ u.phone = reqs[r].phone
                      /\ sessions'[sid] = [id |-> u.id, phone |-> u.phone, role |-> u.role]
            \/ \E r \in ReqIds :
                 /\ reqs[r].pc = "idle" /\ reqs'[r].kind = "logout" /\ reqs'[r].sid = sid
                 /\ sessions'[sid] = NoUser]_vars

\* A verify signed in, a later logout cleared that session again, and a
\* request-otp was answered ok: no session holds a user.
C19_Witness ==
  \E r1, r2, r3 \in ReqIds :
    /\ VerifiedOk(r1) /\ r1 < r2 /\ reqs[r2].kind = "logout"
    /\ reqs[r3].kind = "request-otp" /\ reqs[r3].status = 200
    /\ \A sid \in Sids : sessions[sid] = NoUser

\* ============================================================ claims, messages
\* C20: every message:new push has its stored row.  For each message:new push
\* made by a request, the messages table holds a row of that request addressed
\* to the user the push was addressed to.
C20_PushHasStoredRow ==
  \A i \in PushIds :
    pushes[i].event = "message:new" =>
      \E j \in MessagesBy(pushes[i].req) : messages[j].to_user_id = pushes[i].to

\* ============================================================ claims, settings
\* C21: POST /api/settings changes only the toggles its body supplies.  When
\* a request rewrites an existing settings row, every toggle that its body
\* left out has in the new row the value it had in the old one.
C21_OmittedToggleKept ==
  [][\A u \in DOMAIN settings :
       (settings[u] # NoRow /\ settings'[u] # settings[u]) =>
         \A t \in ToggleNames \ settings'[u].given : settings'[u][t] = settings[u][t]]_vars
====
